---- MODULE Spec2Model ----
(***************************************************************************)
(* Model of tg_signer/config.py: the versioned configuration loader        *)
(* (BaseJSONConfig.valid / load / to_jsonable, SignConfigV1.to_current)    *)
(* and the rule matcher (MatchConfig.match_user / match_text / match /     *)
(* get_send_text, with the cached from_user_set).                          *)
(*                                                                         *)
(* Python values are tagged records [t, n, s]: t is the Python type, n the *)
(* number of an int / bool / time, s the characters of a str (a tuple of   *)
(* one-character strings).  A key that a raw record does not carry has the *)
(* tag "missing".                                                          *)
(***************************************************************************)
EXTENDS Integers, Sequences, FiniteSets, TLC

\* Longest chats / match_cfgs list of an input record.
MaxChats == 1
\* Numeric identifiers and integer payloads of input records are 0..MaxInt.
MaxInt == 1
\* Longest from_user_ids list of a rule.
MaxIds == 2
\* Threads that evaluate one rule at the same time.
MaxThreads == 2

----------------------------------------------------------------------------
\* Python values

IntV(k) == [t |-> "int", n |-> k, s |-> <<>>]
StrV(cs) == [t |-> "str", n |-> 0, s |-> cs]
BoolV(b) == [t |-> "bool", n |-> IF b THEN 1 ELSE 0, s |-> <<>>]
TimeV(secs) == [t |-> "time", n |-> secs, s |-> <<>>]
NoneV == [t |-> "none", n |-> 0, s |-> <<>>]
Missing == [t |-> "missing", n |-> 0, s |-> <<>>]

\* A list-valued key: absent, null, or a list.
MissingL == [t |-> "missing", items |-> <<>>]
NoneL == [t |-> "none", items |-> <<>>]
ListL(xs) == [t |-> "list", items |-> xs]

\* Outcome of validating one field: the coerced value, or a failure.
Ok(v) == [ok |-> TRUE, v |-> v]
Fail == [ok |-> FALSE, v |-> NoneV]

----------------------------------------------------------------------------
\* Characters and strings

Digits == <<"0", "1", "2", "3", "4", "5", "6", "7", "8", "9">>
IsDigit(c) == \E i \in 1..Len(Digits) : Digits[i] = c
DigitVal(c) == (CHOOSE i \in 1..Len(Digits) : Digits[i] = c) - 1
AllDigits(cs) == Len(cs) > 0 /\ \A i \in 1..Len(cs) : IsDigit(cs[i])

RECURSIVE ParseNat(_)
ParseNat(cs) ==
    IF cs = <<>> THEN 0
    ELSE ParseNat(SubSeq(cs, 1, Len(cs) - 1)) * 10 + DigitVal(cs[Len(cs)])

\* str.lower() on the characters the inputs use.
Upper == <<"A", "B", "E", "F", "H", "I", "L", "M", "O", "S">>
LowerOf == <<"a", "b", "e", "f", "h", "i", "l", "m", "o", "s">>
LowerChar(c) ==
    IF \E i \in 1..Len(Upper) : Upper[i] = c
    THEN LowerOf[CHOOSE i \in 1..Len(Upper) : Upper[i] = c]
    ELSE c
Lower(cs) == [i \in 1..Len(cs) |-> LowerChar(cs[i])]

\* str.strip("@"): drops every leading and trailing "@".
RECURSIVE StripAt(_)
StripAt(cs) ==
    IF cs = <<>> THEN cs
    ELSE IF cs[1] = "@" THEN StripAt(Tail(cs))
    ELSE IF cs[Len(cs)] = "@" THEN StripAt(SubSeq(cs, 1, Len(cs) - 1))
    ELSE cs

\* A prefix test in place of the substring test.
IsSubstr_PrefixOnly(needle, hay) ==
    Len(needle) <= Len(hay) /\ SubSeq(hay, 1, Len(needle)) = needle

\* Python's `needle in hay` for two str.
IsSubstr(needle, hay) ==
    \E i \in 1..(Len(hay) + 1) :
        /\ i + Len(needle) - 1 <= Len(hay)
        /\ SubSeq(hay, i, i + Len(needle) - 1) = needle

----------------------------------------------------------------------------
\* pydantic field validation (lax mode), one operator per annotation

\* `int`: an int, a bool, or a str of digits.
ValidInt(v) ==
    IF v.t = "int" THEN Ok(v)
    ELSE IF v.t = "bool" THEN Ok(IntV(v.n))
    ELSE IF v.t = "str" /\ AllDigits(v.s) THEN Ok(IntV(ParseNat(v.s)))
    ELSE Fail

\* `str`: a str only; an int, a None or a datetime.time is rejected.
ValidStr(v) == IF v.t = "str" THEN Ok(v) ELSE Fail

\* `bool`: a bool, or the ints 0 and 1.
ValidBool(v) ==
    IF v.t = "bool" THEN Ok(v)
    ELSE IF v.t = "int" /\ v.n \in {0, 1} THEN Ok(BoolV(v.n = 1))
    ELSE Fail

\* "HH:MM" and "HH:MM:SS".
IsClock(cs) ==
    /\ Len(cs) \in {5, 8}
    /\ \A i \in 1..Len(cs) : IF i \in {3, 6} THEN cs[i] = ":" ELSE IsDigit(cs[i])
    /\ ParseNat(SubSeq(cs, 1, 2)) <= 23
    /\ ParseNat(SubSeq(cs, 4, 5)) <= 59
    /\ (Len(cs) = 8 => ParseNat(SubSeq(cs, 7, 8)) <= 59)
ClockSeconds(cs) ==
    ParseNat(SubSeq(cs, 1, 2)) * 3600 + ParseNat(SubSeq(cs, 4, 5)) * 60
        + (IF Len(cs) = 8 THEN ParseNat(SubSeq(cs, 7, 8)) ELSE 0)

\* `time`: a datetime.time, a clock string, or seconds since midnight.
ValidTime(v) ==
    IF v.t = "time" THEN Ok(v)
    ELSE IF v.t = "str" /\ IsClock(v.s) THEN Ok(TimeV(ClockSeconds(v.s)))
    ELSE IF v.t = "int" /\ v.n >= 0 /\ v.n < 86400 THEN Ok(TimeV(v.n))
    ELSE Fail

\* `Optional[int]` and `Optional[str]`: None, or an int / a str.
ValidOptInt(v) == IF v.t = "none" THEN Ok(NoneV) ELSE ValidInt(v)
ValidOptStr(v) == IF v.t = "none" THEN Ok(NoneV) ELSE ValidStr(v)

\* `Union[int, str]` (smart mode: an int stays an int, a str stays a str).
ValidIntOrStr(v) == IF v.t \in {"int", "str"} THEN Ok(v) ELSE Fail

\* A field with a default: the default is taken unvalidated when the key is absent;
\* validated is the outcome of the annotation's validator on v.
WithDefault(v, dflt, validated) == IF v.t = "missing" THEN Ok(dflt) ELSE validated

\* A required field: an absent key fails.
Required(v, validated) == IF v.t = "missing" THEN Fail ELSE validated

----------------------------------------------------------------------------
\* Load results: (instance, upgraded), None, or a raised exception

Ret(doc, upgraded) == [kind |-> "ok", exc |-> "", doc |-> <<doc>>, upgraded |-> upgraded]
RetNone == [kind |-> "none", exc |-> "", doc |-> <<>>, upgraded |-> FALSE]
Raise(exc) == [kind |-> "raise", exc |-> exc, doc |-> <<>>, upgraded |-> FALSE]
NotCalled == [kind |-> "notcalled", exc |-> "", doc |-> <<>>, upgraded |-> FALSE]

----------------------------------------------------------------------------
\* SignChat

SignChatFields(rc) ==
    [chat_id |-> Required(rc.chat_id, ValidInt(rc.chat_id)),
     sign_text |-> Required(rc.sign_text, ValidStr(rc.sign_text)),
     as_dice |-> WithDefault(rc.as_dice, BoolV(FALSE), ValidBool(rc.as_dice)),
     delete_after |-> WithDefault(rc.delete_after, NoneV, ValidOptInt(rc.delete_after)),
     text_of_btn_to_click |->
         WithDefault(rc.text_of_btn_to_click, NoneV, ValidOptStr(rc.text_of_btn_to_click)),
     choose_option_by_image |->
         WithDefault(rc.choose_option_by_image, BoolV(FALSE),
                     ValidBool(rc.choose_option_by_image)),
     has_calculation_problem |->
         WithDefault(rc.has_calculation_problem, BoolV(FALSE),
                     ValidBool(rc.has_calculation_problem))]

\* SignChat.valid: [ok, doc]; doc is the instance when ok.
ValidSignChat(rc) ==
    LET f == SignChatFields(rc)
    IN  [ok |-> \A k \in DOMAIN f : f[k].ok, doc |-> [k \in DOMAIN f |-> f[k].v]]

\* SignChat.need_response
need_response(c) ==
    \/ (c.text_of_btn_to_click.t = "str" /\ c.text_of_btn_to_click.s # <<>>)
    \/ c.choose_option_by_image.n = 1
    \/ c.has_calculation_problem.n = 1

----------------------------------------------------------------------------
\* SignConfigV1 and SignConfigV2 (extra keys of a raw record are ignored)

SignConfigV1Fields(d) ==
    [chat_id |-> Required(d.chat_id, ValidInt(d.chat_id)),
     sign_text |-> Required(d.sign_text, ValidStr(d.sign_text)),
     sign_at |-> Required(d.sign_at, ValidTime(d.sign_at)),
     random_seconds |-> Required(d.random_seconds, ValidInt(d.random_seconds))]

ValidSignConfigV1(d) ==
    LET f == SignConfigV1Fields(d)
    IN  [ok |-> \A k \in DOMAIN f : f[k].ok, doc |-> [k \in DOMAIN f |-> f[k].v]]

\* `chats: List[SignChat]`: required, a list, every element a valid SignChat.
ValidChats(l) ==
    [ok |-> l.t = "list" /\ \A i \in 1..Len(l.items) : ValidSignChat(l.items[i]).ok,
     v |-> [i \in 1..Len(l.items) |-> ValidSignChat(l.items[i]).doc]]

ValidSignConfigV2(d) ==
    LET chats == ValidChats(d.chats)
        f == [sign_at |-> Required(d.sign_at, ValidStr(d.sign_at)),
              random_seconds |->
                  WithDefault(d.random_seconds, IntV(0), ValidInt(d.random_seconds)),
              sign_interval |->
                  WithDefault(d.sign_interval, IntV(1), ValidInt(d.sign_interval))]
    IN  [ok |-> chats.ok /\ \A k \in DOMAIN f : f[k].ok,
         doc |-> [chats |-> chats.v,
                  sign_at |-> f.sign_at.v,
                  random_seconds |-> f.random_seconds.v,
                  sign_interval |-> f.sign_interval.v]]

\* The keyword arguments SignConfigV1.to_current passes to SignChat(...).
ToCurrentChatArgs(obj) ==
    [chat_id |-> obj.chat_id, sign_text |-> obj.sign_text, as_dice |-> Missing,
     delete_after |-> NoneV, text_of_btn_to_click |-> Missing,
     choose_option_by_image |-> Missing, has_calculation_problem |-> Missing]

\* SignConfigV1.to_current: both constructors validate their arguments; obj.sign_at
\* is the datetime.time that SignConfigV1 parsed, handed to a `str` field.
to_current(obj) ==
    LET chat == ValidSignChat(ToCurrentChatArgs(obj))
        cfg == ValidSignConfigV2([chats |-> ListL(<<chat.doc>>),
                                  sign_at |-> obj.sign_at,
                                  random_seconds |-> obj.random_seconds,
                                  sign_interval |-> Missing,
                                  chat_id |-> Missing,
                                  sign_text |-> Missing])
    IN  IF chat.ok /\ cfg.ok THEN Ret(cfg.doc, TRUE) ELSE Raise("ValidationError")

\* The prior versions are tried before the current one.
SignConfig_load_OldsFirst(d) ==
    IF ValidSignConfigV1(d).ok THEN to_current(ValidSignConfigV1(d).doc)
    ELSE IF ValidSignConfigV2(d).ok THEN Ret(ValidSignConfigV2(d).doc, FALSE)
    ELSE RetNone

\* SignConfig.load: the current shape first, then olds = [SignConfigV1]; falls off
\* the end (returns None) when nothing validates.
SignConfig_load(d) ==
    IF ValidSignConfigV2(d).ok THEN Ret(ValidSignConfigV2(d).doc, FALSE)
    ELSE IF ValidSignConfigV1(d).ok THEN to_current(ValidSignConfigV1(d).doc)
    ELSE RetNone

\* to_jsonable of a SignConfigV2: model_dump(mode="json") writes every field,
\* defaults included, so nothing is absent in the dumped record.
SignConfig_to_jsonable(doc) ==
    [chats |-> ListL(doc.chats),
     sign_at |-> doc.sign_at,
     random_seconds |-> doc.random_seconds,
     sign_interval |-> doc.sign_interval,
     chat_id |-> Missing,
     sign_text |-> Missing]

----------------------------------------------------------------------------
\* MatchConfig and MonitorConfig

\* The four values of MatchRuleT.
M_exact == <<"e", "x", "a", "c", "t">>
M_contains == <<"c", "o", "n", "t", "a", "i", "n", "s">>
M_regex == <<"r", "e", "g", "e", "x">>
M_all == <<"a", "l", "l">>
MatchRuleT == {M_exact, M_contains, M_regex, M_all}

\* `Literal["exact", "contains", "regex", "all"]`
ValidRule(v) == IF v.t = "str" /\ v.s \in MatchRuleT THEN Ok(v) ELSE Fail

\* `Optional[List[Union[int, str]]] = None`: [ok, v] with v a list-valued key.
ValidUserIds(l) ==
    IF l.t \in {"missing", "none"} THEN [ok |-> TRUE, v |-> NoneL]
    ELSE [ok |-> \A i \in 1..Len(l.items) : ValidIntOrStr(l.items[i]).ok, v |-> l]

\* The scalar fields of MatchConfig.  chat_id is annotated Union[int, str] with the
\* default None: absent it is None, but an explicit None is rejected.
MatchConfigFields(rc) ==
    [chat_id |-> WithDefault(rc.chat_id, NoneV, ValidIntOrStr(rc.chat_id)),
     rule |-> WithDefault(rc.rule, StrV(M_exact), ValidRule(rc.rule)),
     rule_value |-> WithDefault(rc.rule_value, NoneV, ValidOptStr(rc.rule_value)),
     default_send_text |->
         WithDefault(rc.default_send_text, NoneV, ValidOptStr(rc.default_send_text)),
     send_text_search_regex |->
         WithDefault(rc.send_text_search_regex, NoneV, ValidOptStr(rc.send_text_search_regex)),
     ignore_case |-> WithDefault(rc.ignore_case, BoolV(TRUE), ValidBool(rc.ignore_case))]

\* MatchConfig.valid; the fields that no method of the class reads (ai_reply,
\* ai_prompt, delete_after, forward_to_chat_id, push_via_server_chan,
\* server_chan_send_key) all have defaults and are left out of the records.
ValidMatchConfig(rc) ==
    LET f == MatchConfigFields(rc)
        ids == ValidUserIds(rc.from_user_ids)
    IN  [ok |-> ids.ok /\ \A k \in DOMAIN f : f[k].ok,
         doc |-> [chat_id |-> f.chat_id.v,
                  rule |-> f.rule.v,
                  rule_value |-> f.rule_value.v,
                  from_user_ids |-> ids.v,
                  default_send_text |-> f.default_send_text.v,
                  send_text_search_regex |-> f.send_text_search_regex.v,
                  ignore_case |-> f.ignore_case.v]]

\* MonitorConfig: `match_cfgs: List[MatchConfig]`, required.
ValidMonitorConfig(d) ==
    [ok |-> d.match_cfgs.t = "list"
            /\ \A i \in 1..Len(d.match_cfgs.items) : ValidMatchConfig(d.match_cfgs.items[i]).ok,
     doc |-> [match_cfgs |->
                 [i \in 1..Len(d.match_cfgs.items) |->
                     ValidMatchConfig(d.match_cfgs.items[i]).doc]]]

\* MonitorConfig.load: olds is None, so only the current shape is tried.
MonitorConfig_load(d) ==
    IF ValidMonitorConfig(d).ok THEN Ret(ValidMonitorConfig(d).doc, FALSE) ELSE RetNone

\* to_jsonable of a MonitorConfig: every field written, a None as null.
MonitorConfig_to_jsonable(doc) == [match_cfgs |-> ListL(doc.match_cfgs)]

\* MonitorConfig.chat_ids
chat_ids(doc) == [i \in 1..Len(doc.match_cfgs) |-> doc.match_cfgs[i].chat_id]

----------------------------------------------------------------------------
\* Regular expressions: re.search on the subset of patterns made of literal
\* characters, "." (any one character) and capture groups that do not nest.

\* Nesting depth after each prefix of the pattern; -1 once a ")" has no "(".
RECURSIVE Depth(_)
Depth(p) ==
    IF p = <<>> THEN 0
    ELSE LET d == Depth(SubSeq(p, 1, Len(p) - 1))
             c == p[Len(p)]
         IN  IF d < 0 THEN d
             ELSE IF c = "(" THEN d + 1
             ELSE IF c = ")" THEN d - 1
             ELSE d

\* re.compile succeeds (otherwise re.error).
Compiles(p) == Depth(p) = 0

NotParen(c) == c \notin {"(", ")"}
IsOpen(c) == c = "("
Literal(p) == SelectSeq(p, NotParen)
NGroups(p) == Len(SelectSeq(p, IsOpen))

FirstOpen(p) == CHOOSE i \in 1..Len(p) : p[i] = "(" /\ \A j \in 1..(i - 1) : p[j] # "("
FirstClose(p) == CHOOSE i \in 1..Len(p) : p[i] = ")" /\ \A j \in 1..(i - 1) : p[j] # ")"
\* Where group 1 starts inside the literal text, and how long it is.
Group1Offset(p) == Len(Literal(SubSeq(p, 1, FirstOpen(p) - 1)))
Group1Len(p) == Len(Literal(SubSeq(p, FirstOpen(p), FirstClose(p))))

MatchesAt(p, text, i, ignorecase) ==
    LET lit == Literal(p)
    IN  /\ i + Len(lit) - 1 <= Len(text)
        /\ \A k \in 1..Len(lit) :
             \/ lit[k] = "."
             \/ IF ignorecase THEN LowerChar(text[i + k - 1]) = LowerChar(lit[k])
                ELSE text[i + k - 1] = lit[k]

\* re.search: [found, pos], pos the leftmost position the pattern matches at.
Search(p, text, ignorecase) ==
    LET hits == {i \in 1..(Len(text) + 1) : MatchesAt(p, text, i, ignorecase)}
    IN  IF hits = {} THEN [found |-> FALSE, pos |-> 0]
        ELSE [found |-> TRUE, pos |-> CHOOSE i \in hits : \A j \in hits : i <= j]

\* m.group(1) of a match at pos, for a pattern with a group.
Group1(p, text, pos) ==
    SubSeq(text, pos + Group1Offset(p), pos + Group1Offset(p) + Group1Len(p) - 1)

----------------------------------------------------------------------------
\* MatchConfig methods.  A call returns a value or raises.

MRet(b) == [kind |-> "ret", val |-> b, exc |-> "", out |-> NoneV]
SRet(v) == [kind |-> "ret", val |-> FALSE, exc |-> "", out |-> v]
MRaise(e) == [kind |-> "raise", val |-> FALSE, exc |-> e, out |-> NoneV]
NoCall == [kind |-> "none", val |-> FALSE, exc |-> "", out |-> NoneV]

S_me == <<"m", "e">>
S_self == <<"s", "e", "l", "f">>

\* Only "me" is aliased to the sentinel, "self" is kept as a handle.
Normalize_NoSelfAlias(u) ==
    IF u.t = "str" /\ u.s = S_me THEN StrV(S_me)
    ELSE IF u.t = "str" THEN StrV(StripAt(Lower(u.s)))
    ELSE u

\* One element of the set comprehension of from_user_set.
Normalize(u) ==
    IF u.t = "str" /\ u.s \in {S_me, S_self} THEN StrV(S_me)
    ELSE IF u.t = "str" THEN StrV(StripAt(Lower(u.s)))
    ELSE u

\* The body of from_user_set, over the from_user_ids list.
from_user_set(ids) == {Normalize(ids.items[i]) : i \in 1..Len(ids.items)}

\* `not self.from_user_ids`: None or the empty list.
NoUserIds(cfg) == cfg.from_user_ids.t # "list" \/ cfg.from_user_ids.items = <<>>

\* The boolean expression match_user returns once both early returns are passed,
\* given the value the from_user_set attribute yields.
UserInSet(u, set) ==
    \/ IntV(u.id) \in set
    \/ (u.username.t = "str" /\ u.username.s # <<>> /\ StrV(Lower(u.username.s)) \in set)
    \/ (StrV(S_me) \in set /\ u.is_self)

\* The attribute read self.from_user_set of a cached_property: the stored value
\* if there is one, else the computed one (which the read then stores).
CacheRead(ro) == IF ro.cached THEN ro.set ELSE from_user_set(ro.cfg.from_user_ids)

\* match_user reaches the from_user_set attribute.
ReadsSet(ro, m) == ~NoUserIds(ro.cfg) /\ m.from_user.present

match_user(ro, m) ==
    IF NoUserIds(ro.cfg) THEN TRUE
    ELSE IF ~m.from_user.present THEN TRUE
    ELSE UserInSet(m.from_user, CacheRead(ro))

\* match_text(text): text a str or None.
match_text(cfg, text) ==
    LET rv == cfg.rule_value
        ic == cfg.ignore_case.n = 1
    IN  IF cfg.rule.s = M_all THEN MRet(TRUE)
        ELSE IF cfg.rule.s = M_exact THEN
            IF ic THEN
                IF rv.t # "str" \/ text.t # "str" THEN MRaise("AttributeError")
                ELSE MRet(Lower(rv.s) = Lower(text.s))
            ELSE MRet(rv = text)
        ELSE IF cfg.rule.s = M_contains THEN
            IF ic THEN
                IF rv.t # "str" \/ text.t # "str" THEN MRaise("AttributeError")
                ELSE MRet(IsSubstr(Lower(rv.s), Lower(text.s)))
            ELSE IF rv.t # "str" \/ text.t # "str" THEN MRaise("TypeError")
            ELSE MRet(IsSubstr(rv.s, text.s))
        ELSE IF cfg.rule.s = M_regex THEN
            IF rv.t # "str" THEN MRaise("TypeError")
            ELSE IF ~Compiles(rv.s) THEN MRaise("re.error")
            ELSE IF text.t # "str" THEN MRaise("TypeError")
            ELSE MRet(Search(rv.s, text.s, ic).found)
        ELSE MRet(FALSE)

\* match(message): match_text runs only when match_user is true.
match(ro, m) == IF match_user(ro, m) THEN match_text(ro.cfg, m.text) ELSE MRet(FALSE)

\* A pattern without a group falls back to the default text instead of raising.
get_send_text_SilentFallback(cfg, text) ==
    LET re == cfg.send_text_search_regex
    IN  IF re.t # "str" \/ re.s = <<>> THEN SRet(cfg.default_send_text)
        ELSE IF ~Compiles(re.s) THEN MRaise("re.error")
        ELSE IF text.t # "str" THEN MRaise("TypeError")
        ELSE LET m == Search(re.s, text.s, FALSE)
             IN  IF ~m.found \/ NGroups(re.s) = 0 THEN SRet(cfg.default_send_text)
                 ELSE SRet(StrV(Group1(re.s, text.s, m.pos)))

\* get_send_text(text)
get_send_text(cfg, text) ==
    LET re == cfg.send_text_search_regex
    IN  IF re.t # "str" \/ re.s = <<>> THEN SRet(cfg.default_send_text)
        ELSE IF ~Compiles(re.s) THEN MRaise("re.error")
        ELSE IF text.t # "str" THEN MRaise("TypeError")
        ELSE LET m == Search(re.s, text.s, FALSE)
             IN  IF ~m.found THEN SRet(cfg.default_send_text)
                 ELSE IF NGroups(re.s) = 0 THEN MRaise("ValueError")
                 ELSE SRet(StrV(Group1(re.s, text.s, m.pos)))

----------------------------------------------------------------------------
\* State

VARIABLES
    family,   \* loader: which class load was called on ("sign", "monitor", "none")
    raw,      \* loader: the raw record handed to load
    res,      \* loader: what load returned or raised
    res2,     \* loader: what load(to_jsonable(instance)) returned or raised
    rule,     \* matcher: the MatchConfig object [cfg, cached, set]
    op,       \* matcher: the method called last
    msg,      \* matcher: the message of the last match / match_user call
    text,     \* matcher: the text of the last match_text / get_send_text call
    result,   \* matcher: what the last call returned or raised
    locked,   \* threads: whether cached_property takes a lock (Python < 3.12)
    lock,     \* threads: the thread holding that lock, 0 when free
    pc,       \* threads: where each thread is inside match
    tmsg,     \* threads: the message each thread evaluates
    tval,     \* threads: the from_user_set value each thread holds
    tres,     \* threads: the result each thread returned last
    computes  \* threads: how many times the body of from_user_set has run

loaderVars == <<family, raw, res, res2>>
matcherVars == <<op, msg, text, result>>
threadVars == <<locked, lock, pc, tmsg, tval, tres, computes>>
vars == <<family, raw, res, res2, rule, op, msg, text, result,
          locked, lock, pc, tmsg, tval, tres, computes>>

----------------------------------------------------------------------------
\* Inputs

C_5 == <<"5">>
C_hi == <<"h", "i">>
C_HI == <<"H", "I">>
C_ohi == <<"o", "h", "i">>
C_clock == <<"0", "8", ":", "3", "0">>
C_cron == <<"0", " ", "8", " ", "*", " ", "*", " ", "*">>
C_bob == <<"b", "o", "b">>
C_Bob == <<"B", "o", "b">>
C_atBob == <<"@", "B", "o", "b">>
C_bogus == <<"f", "o", "o">>
C_d == <<"d">>
C_group == <<"h", "(", "i", ")">>
C_any == <<"h", "(", ".", ")">>
C_open == <<"(">>
C_ho == <<"h", "o">>

Ints == {IntV(k) : k \in 0..MaxInt}

SeqsUpTo(S, k) == UNION {[1..j -> S] : j \in 0..k}

RawSignChats ==
    [chat_id : Ints \cup {StrV(C_5), Missing},
     sign_text : {StrV(C_hi), Missing},
     as_dice : {Missing},
     delete_after : {Missing, IntV(MaxInt), StrV(C_hi)},
     text_of_btn_to_click : {Missing},
     choose_option_by_image : {Missing},
     has_calculation_problem : {Missing}]

RawSignConfigs ==
    [chats : {MissingL} \cup {ListL(xs) : xs \in SeqsUpTo(RawSignChats, MaxChats)},
     sign_at : {Missing, StrV(C_clock), StrV(C_cron), IntV(MaxInt)},
     random_seconds : {Missing, IntV(MaxInt), StrV(C_5)},
     sign_interval : {Missing, IntV(MaxInt + 1)},
     chat_id : {Missing, IntV(MaxInt)},
     sign_text : {Missing, StrV(C_hi)}]

RawMatchConfigsLoaded ==
    [chat_id : {Missing, NoneV, IntV(MaxInt), StrV(C_bob)},
     rule : {Missing, StrV(M_exact), StrV(M_contains), StrV(M_regex), StrV(M_all),
             StrV(C_bogus)},
     rule_value : {Missing, NoneV, StrV(C_hi), IntV(MaxInt)},
     from_user_ids : {MissingL, ListL(<<StrV(S_me)>>)},
     default_send_text : {Missing},
     send_text_search_regex : {Missing},
     ignore_case : {Missing}]

RawMonitorConfigs ==
    [match_cfgs : {MissingL} \cup {ListL(xs) : xs \in SeqsUpTo(RawMatchConfigsLoaded, MaxChats)}]

EmptySignConfig ==
    [chats |-> MissingL, sign_at |-> Missing, random_seconds |-> Missing,
     sign_interval |-> Missing, chat_id |-> Missing, sign_text |-> Missing]

EmptyMatchConfig ==
    [chat_id |-> Missing, rule |-> Missing, rule_value |-> Missing,
     from_user_ids |-> MissingL, default_send_text |-> Missing,
     send_text_search_regex |-> Missing, ignore_case |-> Missing]

\* The object a successful MatchConfig(...) yields: nothing cached yet.
NewObject(doc) == [cfg |-> doc, cached |-> FALSE, set |-> {}]

NoUser == [present |-> FALSE, id |-> 0, username |-> NoneV, is_self |-> FALSE]
NoMsg == [chat_id |-> NoneV, from_user |-> NoUser, text |-> NoneV]

Threads == 1..MaxThreads

InitLoader ==
    /\ family = "none"
    /\ raw = EmptySignConfig
    /\ res = NotCalled
    /\ res2 = NotCalled

InitMatcher ==
    /\ rule = NewObject(ValidMatchConfig(EmptyMatchConfig).doc)
    /\ op = "none"
    /\ msg = NoMsg
    /\ text = NoneV
    /\ result = NoCall

InitThreads ==
    /\ lock = 0
    /\ pc = [t \in Threads |-> "idle"]
    /\ tmsg = [t \in Threads |-> NoMsg]
    /\ tval = [t \in Threads |-> {}]
    /\ tres = [t \in Threads |-> NoCall]
    /\ computes = 0

----------------------------------------------------------------------------
\* The loader

\* SignConfig.load(d), on a record read from a file
LoadSign ==
    /\ family = "none"
    /\ \E d \in RawSignConfigs :
        /\ family' = "sign"
        /\ raw' = d
        /\ res' = SignConfig_load(d)
        /\ res2' = NotCalled
        /\ UNCHANGED <<rule, matcherVars, threadVars>>

\* MonitorConfig.load(d), on a record read from a file
LoadMonitor ==
    /\ family = "none"
    /\ \E d \in RawMonitorConfigs :
        /\ family' = "monitor"
        /\ raw' = d
        /\ res' = MonitorConfig_load(d)
        /\ res2' = NotCalled
        /\ UNCHANGED <<rule, matcherVars, threadVars>>

\* cls.load(instance.to_jsonable()) on the instance the last load returned.
SaveLoad ==
    /\ res.kind = "ok"
    /\ res2 = NotCalled
    /\ res2' = IF family = "sign"
               THEN SignConfig_load(SignConfig_to_jsonable(res.doc[1]))
               ELSE MonitorConfig_load(MonitorConfig_to_jsonable(res.doc[1]))
    /\ UNCHANGED <<family, raw, res, rule, matcherVars, threadVars>>

NextLoad == LoadSign \/ LoadMonitor \/ SaveLoad

InitLoad == InitLoader /\ InitMatcher /\ InitThreads /\ locked = FALSE

SpecLoad == InitLoad /\ [][NextLoad]_vars

----------------------------------------------------------------------------
\* The matcher, one rule object and one caller

UserIdItems == {IntV(k) : k \in 1..MaxInt} \cup {StrV(S_me), StrV(S_self), StrV(C_atBob)}

\* Rules that differ in their sender allow-list.
SenderRules ==
    {[EmptyMatchConfig EXCEPT !.chat_id = IntV(0), !.rule = StrV(M_all),
                              !.from_user_ids = ids] :
        ids \in {MissingL} \cup {ListL(xs) : xs \in SeqsUpTo(UserIdItems, MaxIds)}}

\* Rules that differ in their text predicate.
TextRules ==
    [chat_id : {Missing, IntV(0)},
     rule : {StrV(M_exact), StrV(M_contains), StrV(M_regex), StrV(M_all)},
     rule_value : {Missing, StrV(C_hi), StrV(C_HI), StrV(C_group), StrV(C_open)},
     from_user_ids : {MissingL, ListL(<<StrV(S_me)>>)},
     default_send_text : {Missing},
     send_text_search_regex : {Missing},
     ignore_case : {Missing, BoolV(FALSE)}]

\* Rules that differ in how the outgoing text is derived.
SendRules ==
    [chat_id : {IntV(0)},
     rule : {StrV(M_all)},
     rule_value : {Missing},
     from_user_ids : {MissingL},
     default_send_text : {Missing, StrV(C_d)},
     send_text_search_regex :
         {Missing, StrV(<<>>), StrV(C_hi), StrV(C_group), StrV(C_any), StrV(C_open)},
     ignore_case : {Missing}]

RuleInputs == SenderRules \cup TextRules \cup SendRules

Texts == {NoneV, StrV(<<>>), StrV(C_hi), StrV(C_HI), StrV(C_ohi), StrV(C_ho)}

Users ==
    {NoUser} \cup
    [present : {TRUE}, id : 0..MaxInt, username : {NoneV, StrV(C_Bob), StrV(S_me)},
     is_self : BOOLEAN]

Messages == [chat_id : Ints, from_user : Users, text : Texts]

\* What a call does to the object: the first read of from_user_set stores it.
AfterRead(ro) ==
    IF ro.cached THEN ro
    ELSE [ro EXCEPT !.cached = TRUE, !.set = from_user_set(ro.cfg.from_user_ids)]

\* rule.match_user(m)
MatchUser ==
    /\ op = "none"
    /\ \E m \in {x \in Messages : x.chat_id = IntV(0) /\ x.text = NoneV} :
        /\ op' = "match_user"
        /\ msg' = m
        /\ text' = NoneV
        /\ result' = MRet(match_user(rule, m))
        /\ rule' = IF ReadsSet(rule, m) THEN AfterRead(rule) ELSE rule
        /\ UNCHANGED <<loaderVars, threadVars>>

\* rule.match_text(t)
MatchText ==
    /\ op = "none"
    /\ \E t \in Texts :
        /\ op' = "match_text"
        /\ msg' = NoMsg
        /\ text' = t
        /\ result' = match_text(rule.cfg, t)
        /\ UNCHANGED <<rule, loaderVars, threadVars>>

\* rule.match(m)
Match ==
    /\ op = "none"
    /\ \E m \in Messages :
        /\ op' = "match"
        /\ msg' = m
        /\ text' = NoneV
        /\ result' = match(rule, m)
        /\ rule' = IF ReadsSet(rule, m) THEN AfterRead(rule) ELSE rule
        /\ UNCHANGED <<loaderVars, threadVars>>

\* rule.get_send_text(t)
GetSendText ==
    /\ op = "none"
    /\ \E t \in Texts :
        /\ op' = "get_send_text"
        /\ msg' = NoMsg
        /\ text' = t
        /\ result' = get_send_text(rule.cfg, t)
        /\ UNCHANGED <<rule, loaderVars, threadVars>>

\* rule.rule = <some other str>: pydantic does not validate an assignment.
AssignRule ==
    /\ op = "none"
    /\ ~rule.cached
    /\ rule.cfg.rule.s \in MatchRuleT
    /\ rule' = [rule EXCEPT !.cfg.rule = StrV(C_bogus)]
    /\ UNCHANGED <<matcherVars, loaderVars, threadVars>>

\* The caller takes the result; the object stays.
Return ==
    /\ op # "none"
    /\ op' = "none"
    /\ msg' = NoMsg
    /\ text' = NoneV
    /\ result' = NoCall
    /\ UNCHANGED <<rule, loaderVars, threadVars>>

\* A rule as MatchConfig(**rc) leaves it.
InitMatch ==
    /\ InitLoader
    /\ InitThreads
    /\ locked = FALSE
    /\ rule \in {NewObject(ValidMatchConfig(rc).doc) :
                    rc \in {x \in RuleInputs : ValidMatchConfig(x).ok}}
    /\ op = "none"
    /\ msg = NoMsg
    /\ text = NoneV
    /\ result = NoCall

NextMatch == MatchUser \/ MatchText \/ Match \/ GetSendText \/ AssignRule \/ Return

SpecMatch == InitMatch /\ [][NextMatch]_vars

----------------------------------------------------------------------------
\* The matcher, one rule object shared by threads that each run match(m).
\* functools.cached_property reads the instance's __dict__, and on a miss runs
\* the body and stores its value; up to Python 3.11 the miss path runs under a
\* lock and re-reads the __dict__ first, from Python 3.12 there is no lock.

ThreadIdLists ==
    {ListL(<<StrV(S_me)>>), ListL(<<IntV(MaxInt), StrV(C_atBob)>>), ListL(<<>>)}

ThreadRules ==
    {[EmptyMatchConfig EXCEPT !.chat_id = IntV(0), !.rule = StrV(M_all),
                              !.from_user_ids = ids] : ids \in ThreadIdLists}

ThreadMessages ==
    {m \in Messages : /\ m.chat_id = IntV(0)
                      /\ m.text = StrV(C_hi)
                      /\ m.from_user.present
                      /\ m.from_user.id = MaxInt
                      /\ m.from_user.username \in {NoneV, StrV(C_Bob)}}

\* What match returns once match_user has its value.
MatchAfterUser(cfg, m, userOk) == IF userOk THEN match_text(cfg, m.text) ELSE MRet(FALSE)

\* A thread enters rule.match(m).
Call(t) ==
    /\ pc[t] = "idle"
    /\ \E m \in ThreadMessages :
        /\ pc' = [pc EXCEPT ![t] = "ids"]
        /\ tmsg' = [tmsg EXCEPT ![t] = m]
        /\ UNCHANGED <<rule, locked, lock, tval, tres, computes, loaderVars, matcherVars>>

\* `if not self.from_user_ids: return True`
CheckIds(t) ==
    /\ pc[t] = "ids"
    /\ IF NoUserIds(rule.cfg)
       THEN /\ tres' = [tres EXCEPT ![t] = MatchAfterUser(rule.cfg, tmsg[t], TRUE)]
            /\ pc' = [pc EXCEPT ![t] = "done"]
       ELSE /\ pc' = [pc EXCEPT ![t] = "sender"]
            /\ UNCHANGED tres
    /\ UNCHANGED <<rule, locked, lock, tmsg, tval, computes, loaderVars, matcherVars>>

\* `if not message.from_user: return True`
CheckSender(t) ==
    /\ pc[t] = "sender"
    /\ IF ~tmsg[t].from_user.present
       THEN /\ tres' = [tres EXCEPT ![t] = MatchAfterUser(rule.cfg, tmsg[t], TRUE)]
            /\ pc' = [pc EXCEPT ![t] = "done"]
       ELSE /\ pc' = [pc EXCEPT ![t] = "lookup"]
            /\ UNCHANGED tres
    /\ UNCHANGED <<rule, locked, lock, tmsg, tval, computes, loaderVars, matcherVars>>

\* self.from_user_set: the first read of the instance's __dict__.
Lookup(t) ==
    /\ pc[t] = "lookup"
    /\ IF rule.cached
       THEN /\ tval' = [tval EXCEPT ![t] = rule.set]
            /\ pc' = [pc EXCEPT ![t] = "eval"]
       ELSE /\ pc' = [pc EXCEPT ![t] = IF locked THEN "acquire" ELSE "compute"]
            /\ UNCHANGED tval
    /\ UNCHANGED <<rule, locked, lock, tmsg, tres, computes, loaderVars, matcherVars>>

\* `with self.lock:` and the second read of the __dict__ (Python < 3.12).
Acquire(t) ==
    /\ pc[t] = "acquire"
    /\ lock = 0
    /\ IF rule.cached
       THEN /\ tval' = [tval EXCEPT ![t] = rule.set]
            /\ pc' = [pc EXCEPT ![t] = "eval"]
            /\ UNCHANGED lock
       ELSE /\ lock' = t
            /\ pc' = [pc EXCEPT ![t] = "compute"]
            /\ UNCHANGED tval
    /\ UNCHANGED <<rule, locked, tmsg, tres, computes, loaderVars, matcherVars>>

\* The body of from_user_set runs on the list the rule holds now.
Compute(t) ==
    /\ pc[t] = "compute"
    /\ tval' = [tval EXCEPT ![t] = from_user_set(rule.cfg.from_user_ids)]
    /\ computes' = computes + 1
    /\ pc' = [pc EXCEPT ![t] = "store"]
    /\ UNCHANGED <<rule, locked, lock, tmsg, tres, loaderVars, matcherVars>>

\* The value is stored in the instance's __dict__ (and the lock released).
Store(t) ==
    /\ pc[t] = "store"
    /\ rule' = [rule EXCEPT !.cached = TRUE, !.set = tval[t]]
    /\ lock' = IF lock = t THEN 0 ELSE lock
    /\ pc' = [pc EXCEPT ![t] = "eval"]
    /\ UNCHANGED <<locked, tmsg, tval, tres, computes, loaderVars, matcherVars>>

\* The membership tests of match_user, then match_text.
Eval(t) ==
    /\ pc[t] = "eval"
    /\ tres' = [tres EXCEPT ![t] =
                   MatchAfterUser(rule.cfg, tmsg[t], UserInSet(tmsg[t].from_user, tval[t]))]
    /\ pc' = [pc EXCEPT ![t] = "done"]
    /\ UNCHANGED <<rule, locked, lock, tmsg, tval, computes, loaderVars, matcherVars>>

\* match returns to the thread's caller.
Finish(t) ==
    /\ pc[t] = "done"
    /\ pc' = [pc EXCEPT ![t] = "idle"]
    /\ UNCHANGED <<rule, locked, lock, tmsg, tval, tres, computes, loaderVars, matcherVars>>

\* rule.from_user_ids = <another list>: an assignment, which leaves the stored
\* from_user_set alone.
AssignFromUserIds ==
    \E ids \in ThreadIdLists :
        /\ ids # rule.cfg.from_user_ids
        /\ rule' = [rule EXCEPT !.cfg.from_user_ids = ids]
        /\ UNCHANGED <<threadVars, loaderVars, matcherVars>>

InitThreaded ==
    /\ InitLoader
    /\ InitThreads
    /\ locked \in BOOLEAN
    /\ rule \in {NewObject(ValidMatchConfig(rc).doc) : rc \in ThreadRules}
    /\ op = "none"
    /\ msg = NoMsg
    /\ text = NoneV
    /\ result = NoCall

NextThreaded ==
    \/ \E t \in Threads :
         \/ Call(t)
         \/ CheckIds(t)
         \/ CheckSender(t)
         \/ Lookup(t)
         \/ Acquire(t)
         \/ Compute(t)
         \/ Store(t)
         \/ Eval(t)
         \/ Finish(t)
    \/ AssignFromUserIds

SpecThreaded == InitThreaded /\ [][NextThreaded]_vars

----------------------------------------------------------------------------
\* Properties of the loader (SpecLoad)

ValidatesCurrent ==
    IF family = "sign" THEN ValidSignConfigV2(raw).ok ELSE ValidMonitorConfig(raw).ok
ValidatesPrior == family = "sign" /\ ValidSignConfigV1(raw).ok

\* C1: a record that validates against neither the current shape nor any prior
\* shape makes load fail with a SchemaMismatch error, for both families.
C1_UnmatchedRecordRaisesSchemaMismatch ==
    (family # "none" /\ ~ValidatesCurrent /\ ~ValidatesPrior)
        => (res.kind = "raise" /\ res.exc = "SchemaMismatch")

\* C2: a record that validates as v1 and not as v2 loads as (doc, upgraded = TRUE):
\* one Sign Chat with the v1 chat_id and sign_text and no delete_after, sign_at and
\* random_seconds carried over, sign_interval 1; the upgrade never fails.
C2_V1RecordUpgrades ==
    (family = "sign" /\ ValidSignConfigV1(raw).ok /\ ~ValidSignConfigV2(raw).ok)
        => /\ res.kind = "ok"
           /\ res.upgraded
           /\ LET doc == res.doc[1]
                  v1 == ValidSignConfigV1(raw).doc
              IN  /\ Len(doc.chats) = 1
                  /\ doc.chats[1].chat_id = v1.chat_id
                  /\ doc.chats[1].sign_text = v1.sign_text
                  /\ doc.chats[1].delete_after = NoneV
                  /\ doc.sign_at.t = "str"
                  /\ IsClock(doc.sign_at.s)
                  /\ ClockSeconds(doc.sign_at.s) = v1.sign_at.n
                  /\ doc.random_seconds = v1.random_seconds
                  /\ doc.sign_interval = IntV(1)

\* C3: a record that validates against the v2 shape (also one that validates
\* against v1 as well) loads as the v2 document with upgraded = FALSE, and loading
\* what to_jsonable gives for that document yields equal fields and upgraded = FALSE.
C3_CurrentFirstAndRoundTrip ==
    (family = "sign" /\ ValidSignConfigV2(raw).ok)
        => /\ res.kind = "ok"
           /\ ~res.upgraded
           /\ res.doc[1].sign_at = raw.sign_at
           /\ Len(res.doc[1].chats) = Len(raw.chats.items)
           /\ res2 # NotCalled
                => (res2.kind = "ok" /\ ~res2.upgraded /\ res2.doc = res.doc)

\* C3's case: a record with a chat id written as a string that validates against
\* both shapes has been loaded, saved and loaded again.
C3_Witness ==
    /\ family = "sign"
    /\ ValidSignConfigV2(raw).ok
    /\ ValidSignConfigV1(raw).ok
    /\ Len(raw.chats.items) = 1
    /\ raw.chats.items[1].chat_id = StrV(C_5)
    /\ res.kind = "ok"
    /\ res.doc[1].chats[1].chat_id = IntV(5)
    /\ res2.kind = "ok"

\* C9: every loaded Match Rule has a chat identifier, and a pattern value unless
\* its mode is all.
C9_LoadedRulesAreWellFormed ==
    (family = "monitor" /\ res.kind = "ok")
        => \A i \in 1..Len(res.doc[1].match_cfgs) :
             LET r == res.doc[1].match_cfgs[i]
             IN  /\ r.chat_id.t \in {"int", "str"}
                 /\ (r.rule.s # M_all => r.rule_value.t = "str")

----------------------------------------------------------------------------
\* Properties of the matcher (SpecMatch)

\* C4: a message from another chat than the rule's never matches.
C4_ChatMismatchNeverMatches ==
    (op = "match" /\ msg.chat_id # rule.cfg.chat_id)
        => ~(result.kind = "ret" /\ result.val)

\* Whether one entry of from_user_ids lets the sender u through, spelled out on
\* the entry as the rule writes it.
EntryAdmits(e, u) ==
    LET handle == IF u.username.t = "str" THEN Lower(u.username.s) ELSE <<>>
    IN  IF e.t = "int" THEN e.n = u.id
        ELSE IF e.s \in {S_me, S_self} THEN u.is_self \/ handle = S_me
        ELSE \/ (handle # <<>> /\ handle = StripAt(Lower(e.s)))
             \/ (StripAt(Lower(e.s)) = S_me /\ u.is_self)

\* C5: the sender stage passes when the allow-list is empty or absent or the
\* message has no sender; otherwise exactly when the sender's id, or lowercased
\* handle, is in the normalized list, or the list holds "me"/"self" and the sender
\* is the account itself.
C5_SenderStage ==
    op = "match_user" =>
        LET ids == rule.cfg.from_user_ids
            u == msg.from_user
        IN  /\ result.kind = "ret"
            /\ result.val <=>
                 \/ ids.t # "list"
                 \/ ids.items = <<>>
                 \/ ~u.present
                 \/ \E i \in 1..Len(ids.items) : EntryAdmits(ids.items[i], u)

\* C5's case: a rule with from_user_ids ["self"] passed a sender that is the
\* account itself and whose id is not listed.
C5_Witness ==
    /\ op = "match_user"
    /\ rule.cfg.from_user_ids = ListL(<<StrV(S_self)>>)
    /\ msg.from_user.present
    /\ msg.from_user.is_self
    /\ msg.from_user.username = NoneV
    /\ result.val

\* C6: with a pattern value and a text present, mode all is true, exact is equality
\* and contains is the substring test, on the lowercased forms when ignore_case is
\* set and on the raw forms otherwise; an unrecognized mode is false.
C6_TextStage ==
    (op = "match_text" /\ rule.cfg.rule_value.t = "str" /\ text.t = "str"
                       /\ rule.cfg.rule.s # M_regex) =>
        LET ic == rule.cfg.ignore_case.n = 1
            a == IF ic THEN Lower(rule.cfg.rule_value.s) ELSE rule.cfg.rule_value.s
            b == IF ic THEN Lower(text.s) ELSE text.s
            mode == rule.cfg.rule.s
        IN  /\ result.kind = "ret"
            /\ result.val <=>
                 \/ mode = M_all
                 \/ (mode = M_exact /\ a = b)
                 \/ (mode = M_contains
                       /\ \E i \in 0..Len(b) : \E j \in 0..Len(b) :
                            i + Len(a) + j = Len(b) /\ SubSeq(b, i + 1, i + Len(a)) = a)

\* C6's case: a contains rule "HI" that ignores case matched the text "ohi".
C6_Witness ==
    /\ op = "match_text"
    /\ rule.cfg.rule.s = M_contains
    /\ rule.cfg.rule_value = StrV(C_HI)
    /\ rule.cfg.ignore_case.n = 1
    /\ text = StrV(C_ohi)
    /\ result.val

\* C7: a rule whose mode is exact, contains or regex, evaluated on a message
\* without text, returns no-match and does not raise.
C7_AbsentTextIsNoMatch ==
    (op = "match" /\ msg.text = NoneV /\ rule.cfg.rule_value.t = "str"
                  /\ rule.cfg.rule.s \in {M_exact, M_contains, M_regex})
        => result = MRet(FALSE)

\* C8: the outgoing text is the default text without an extraction pattern or
\* when the pattern does not match, the first group when it matches and has one,
\* and an error (never the default text) when it matches and has no group.
C8_SendText ==
    (op = "get_send_text" /\ text.t = "str") =>
        LET re == rule.cfg.send_text_search_regex
            dflt == SRet(rule.cfg.default_send_text)
            hits == {i \in 1..(Len(text.s) + 1) : MatchesAt(re.s, text.s, i, FALSE)}
        IN  IF re.t # "str" \/ re.s = <<>> THEN result = dflt
            ELSE Compiles(re.s) =>
                 IF hits = {} THEN result = dflt
                 ELSE IF NGroups(re.s) = 0 THEN result = MRaise("ValueError")
                 ELSE /\ result.kind = "ret"
                      /\ result.out.t = "str"
                      /\ \E i \in hits :
                           /\ \A j \in hits : i <= j
                           /\ result.out.s = Group1(re.s, text.s, i)
                      /\ (re.s = C_group => result.out.s = <<"i">>)
                      /\ (re.s = C_any /\ text.s = C_ho => result.out.s = <<"o">>)
                      /\ (re.s = C_any /\ text.s = C_ohi => result.out.s = <<"i">>)

\* C8's case: a pattern without a group matched the text and the call raised.
C8_Witness ==
    /\ op = "get_send_text"
    /\ rule.cfg.send_text_search_regex = StrV(C_hi)
    /\ rule.cfg.default_send_text = StrV(C_d)
    /\ text = StrV(C_ohi)
    /\ result = MRaise("ValueError")

----------------------------------------------------------------------------
\* Properties of the shared rule (SpecThreaded)

\* C10: however the match calls of the threads interleave, the body of
\* from_user_set runs at most once for one rule object.
C10_ComputedAtMostOnce == computes <= 1

====
